---- MODULE Spec2Model ----
(***************************************************************************)
(* txsoundgen: the synthesis cache (CachedSound), the Sound unit and the   *)
(* Pack assembler of txsoundgen/model.py, with merge_config of utils.py.   *)
(*                                                                         *)
(* Strings the code inspects character by character (file targets, bucket  *)
(* names, sound ids, pack names, language codes) are sequences of          *)
(* one-character strings; strings the code only compares as a whole        *)
(* (voice, engine, service, phrase, audio bytes) are atomic.               *)
(***************************************************************************)
EXTENDS Integers, Sequences, FiniteSets, TLC

VARIABLES
    dbInit,     \* model.db: has db.init(...) / create_tables been run
    table,      \* the rows of table "sound", in insertion (rowid) order
    sounds,     \* the heap of Sound objects, in construction order
    files,      \* the file system: written path -> file content
    last,       \* what the latest Sound.process (or Sound.render) call did,
                \* or NoCall
    nProcess,   \* the number of calls made on Sounds so far
    procCalls,  \* cache key -> the number of Sound.process calls made for it
    backendCalls, \* cache key -> the number of backend invocations for it
    dirs,       \* the file system: the directories that exist
    pack,       \* the Pack object, or NoPack before it is constructed
    gen,        \* the pack generation: [status, pos, error], pos the unit it
                \* is at, error the exception that ended it
    call,       \* the latest call of merge_config or _format_filename made
                \* on its own: [fn, its arguments, result], or NoCall
    running,    \* the Sound.process calls of the threads, each at its own
                \* step: thread -> the call's record and pc, or Idle
    setups,     \* the Pack._setup runs of the threads, each at its own
                \* step: thread -> [pc, raised, group], or Idle
    lastSetup,  \* what the latest Pack._setup run on its own did, or NoCall
    polly       \* the providers.Polly object, or NoPolly

vars ==
    <<dbInit, table, sounds, files, last, nProcess, procCalls, backendCalls,
      dirs, pack, gen, call, running, setups, lastSetup, polly>>

(***************************************************************************)
(* Bounds of the model.                                                    *)
(***************************************************************************)
MaxSounds == 2      \* Sound objects constructed directly
MaxCalls == 2       \* Sound.process calls made directly
MaxBuckets == 2     \* buckets of a pack's phrase map

(***************************************************************************)
(* Character strings.                                                      *)
(***************************************************************************)
NL == "\n"
DotWav == <<".", "w", "a", "v">>
en_GB == <<"e", "n", "-", "G", "B">>
en_US == <<"e", "n", "-", "U", "S">>
default_name == <<"d", "e", "f", "a", "u", "l", "t">>
output == <<"o", "u", "t", "p", "u", "t">>

system == <<"s", "y", "s", "t", "e", "m">>
SYSTEM == <<"S", "Y", "S", "T", "E", "M">>
extra == <<"e", "x", "t", "r", "a">>
voicepacks == <<"v", "o", "i", "c", "e", "p", "a", "c", "k", "s">>
SOUNDS == <<"S", "O", "U", "N", "D", "S">>
language_dir == <<"l", "a", "n", "g", "u", "a", "g", "e">>
weirdlong == <<"w", "e", "i", "r", "d", "l", "o", "n", "g">>
UpperCase == <<"A", "B", "C", "D", "E", "F", "G", "H", "I", "J", "K", "L", "M", "N", "O", "P", "Q", "R", "S", "T", "U", "V", "W", "X", "Y", "Z">>
LowerCase == <<"a", "b", "c", "d", "e", "f", "g", "h", "i", "j", "k", "l", "m", "n", "o", "p", "q", "r", "s", "t", "u", "v", "w", "x", "y", "z">>
Digits == {"0", "1", "2", "3", "4", "5", "6", "7", "8", "9"}

None == "None"
Bytes == {"pcm1", "pcm2"}

(***************************************************************************)
(* utils.py                                                                *)
(***************************************************************************)
default_config ==
    [language |-> en_GB, voice |-> "Amy", engine |-> "standard",
     extension |-> "wav", name |-> default_name]

\* The argument of merge_config: None is a mapping of its own, {} is <<>>.
NoneConfig == [None |-> TRUE]

merge_config_defaults_win(config) ==
    LET given == IF config = NoneConfig \/ DOMAIN config = {} THEN <<>> ELSE config
    IN  default_config @@ given

\* {**default_config, **config}
merge_config(config) ==
    LET given == IF config = NoneConfig \/ DOMAIN config = {} THEN <<>> ELSE config
    IN  given @@ default_config

\* The overrides Sound objects are constructed with.
Overrides ==
    {NoneConfig, <<>>, [language |-> en_US], [voice |-> "Brian"],
     [engine |-> "neural"]}

(***************************************************************************)
(* Sound.process, step 1: re.sub(r"(?<!\.wav)$", ".wav", file).            *)
(* "$" matches at the end of the string and just before a newline that     *)
(* ends it; the lookbehind rejects a position preceded by ".wav"; every    *)
(* match is replaced.                                                      *)
(***************************************************************************)
PrecededByWav(s, p) == p >= 4 /\ SubSeq(s, p - 3, p) = DotWav

DollarAt(s, p) ==
    \/ p = Len(s)
    \/ p = Len(s) - 1 /\ s[Len(s)] = NL

RECURSIVE SubFrom(_, _)
SubFrom(s, p) ==
    LET ins == IF DollarAt(s, p) /\ ~PrecededByWav(s, p) THEN DotWav ELSE <<>>
    IN  IF p = Len(s) THEN ins
        ELSE ins \o <<s[p + 1]>> \o SubFrom(s, p + 1)

normalise_target(file) == SubFrom(file, 0)

(***************************************************************************)
(* CachedSound: the peewee model over table "sound".                      *)
(***************************************************************************)
Key(engine, language, voice, service, phrase) ==
    [engine |-> engine, language |-> language, voice |-> voice,
     service |-> service, phrase |-> phrase]

RowKey(row) == Key(row.engine, row.language, row.voice, row.service, row.phrase)

SoundKey(s) ==
    Key(s.config["engine"], s.config["language"], s.config["voice"],
        s.service, s.phrase)

Matching_ignores_voice(rows, key) ==
    {i \in 1..Len(rows) : [RowKey(rows[i]) EXCEPT !.voice = key.voice] = key}

\* The rows CachedSound.get(engine=..., language=..., voice=..., service=...,
\* phrase=...) selects: equality on each of the five columns.
Matching(rows, key) == {i \in 1..Len(rows) : RowKey(rows[i]) = key}

CachedSound_get_never_finds(init, rows, key) ==
    IF ~init THEN [raised |-> "InterfaceError", data |-> None]
    ELSE [raised |-> "DoesNotExist", data |-> None]

\* CachedSound.get: InterfaceError on an uninitialised database, DoesNotExist
\* when no row matches, else the first matching row.
CachedSound_get(init, rows, key) ==
    IF ~init THEN [raised |-> "InterfaceError", data |-> None]
    ELSE IF Matching(rows, key) = {} THEN [raised |-> "DoesNotExist", data |-> None]
    ELSE LET i == CHOOSE j \in Matching(rows, key) :
                      \A k \in Matching(rows, key) : j <= k
         IN  [raised |-> "no", data |-> rows[i].data]

CachedSound_create_drops(init, rows, key, data) ==
    IF ~init THEN [raised |-> "InterfaceError", rows |-> rows]
    ELSE IF \E i \in 1..Len(rows) : rows[i].data = data
         THEN [raised |-> "IntegrityError", rows |-> rows]
    ELSE [raised |-> "no", rows |-> rows]

\* CachedSound.create: InterfaceError on an uninitialised database,
\* IntegrityError when the unique column data already holds the value,
\* else the row is appended.
CachedSound_create(init, rows, key, data) ==
    IF ~init THEN [raised |-> "InterfaceError", rows |-> rows]
    ELSE IF \E i \in 1..Len(rows) : rows[i].data = data
         THEN [raised |-> "IntegrityError", rows |-> rows]
    ELSE [raised |-> "no",
          rows |-> Append(rows, [engine |-> key.engine, language |-> key.language,
                                 voice |-> key.voice, service |-> key.service,
                                 phrase |-> key.phrase, data |-> data])]

(***************************************************************************)
(* The collaborators of Sound: the synthesis backend and the WAVE writer.  *)
(***************************************************************************)
BackendError == "BackendError"
BackendResults == Bytes \cup {BackendError}

\* txsoundgen.audio.polly_process(client, phrase): the bytes the backend
\* answers with, or its error.
polly_process(answer) ==
    IF answer = BackendError THEN [raised |-> BackendError, data |-> None]
    ELSE [raised |-> "no", data |-> answer]

\* txsoundgen.audio.wave_write(file, data): the WAVE container holding data,
\* mono, 16 bit, 16 kHz, stored at file; or IOError.
wave_write(fs, file, data, ok) ==
    IF ~ok THEN [raised |-> "IOError", files |-> fs]
    ELSE [raised |-> "no",
          files |-> (file :> [format |-> "WAVE", channels |-> 1, width |-> 2,
                              rate |-> 16000, payload |-> data]) @@ fs]

(***************************************************************************)
(* Sound                                                                   *)
(***************************************************************************)
Sound_new_default_config(phrase, config) ==
    [phrase |-> phrase, config |-> merge_config(NoneConfig), service |-> "Polly",
     data |-> None]

\* Sound(phrase, config)
Sound_new(phrase, config) ==
    [phrase |-> phrase, config |-> merge_config(config), service |-> "Polly",
     data |-> None]

\* Sound.check_cache: [hit, data], data being self.data afterwards.
check_cache(init, rows, s) ==
    LET got == CachedSound_get(init, rows, SoundKey(s))
    IN  IF got.raised = "no" THEN [hit |-> TRUE, data |-> got.data]
        ELSE [hit |-> FALSE, data |-> s.data]

\* The arguments render passes on: polly_process(client, self.phrase); None
\* stands for an argument that is not passed.
render_request(s) ==
    [phrase |-> s.phrase, voice |-> None, language |-> None, engine |-> None]

\* Sound.render: [raised, data, request], data being self.data afterwards.
render(s, answer) ==
    LET got == polly_process(answer)
    IN  [raised |-> got.raised,
         data |-> IF got.raised = "no" THEN got.data ELSE s.data,
         request |-> render_request(s)]

(***************************************************************************)
(* Sound.process(client, file) on Sound s, for a string file.  A call is a *)
(* record c: the Sound (c.self), the state it runs in (c.store, c.rows,    *)
(* c.files), what the collaborators will do (c.answer, c.writeOk) and what *)
(* the call has done so far; c.raised names the exception that ended it.   *)
(***************************************************************************)
process_enter(init, rows, fs, s, file, answer, writeOk) ==
    [self |-> s, target |-> file, path |-> normalise_target(file),
     store |-> init, answer |-> answer, writeOk |-> writeOk,
     hit |-> FALSE, backend |-> 0, answered |-> None, request |-> None,
     create |-> "none", written |-> FALSE,
     raised |-> "no", data |-> s.data, rows |-> rows, files |-> fs]

\* if self.check_cache():
process_check(c) ==
    LET cc == check_cache(c.store, c.rows, c.self)
    IN  [c EXCEPT !.hit = cc.hit, !.data = cc.data]

process_render_clears(c) ==
    LET rd == render([c.self EXCEPT !.data = None], c.answer)
    IN  [c EXCEPT !.backend = @ + 1, !.answered = c.answer, !.data = rd.data,
                  !.request = rd.request, !.raised = rd.raised]

\* self.render(client)
process_render(c) ==
    LET rd == render([c.self EXCEPT !.data = c.data], c.answer)
    IN  [c EXCEPT !.backend = @ + 1, !.answered = c.answer, !.data = rd.data,
                  !.request = rd.request, !.raised = rd.raised]

process_store_unswallowed(c) ==
    LET cr == CachedSound_create(c.store, c.rows, SoundKey(c.self), c.data)
    IN  IF c.raised # "no" THEN c
        ELSE [c EXCEPT !.create = cr.raised, !.rows = cr.rows,
                       !.raised = cr.raised]

\* try: CachedSound.create(...) except peewee.InterfaceError: warning
process_store(c) ==
    LET cr == CachedSound_create(c.store, c.rows, SoundKey(c.self), c.data)
    IN  IF c.raised # "no" THEN c
        ELSE [c EXCEPT !.create = cr.raised, !.rows = cr.rows,
                       !.raised = IF cr.raised = "InterfaceError" THEN "no"
                                  ELSE cr.raised]

\* txsoundgen.audio.wave_write(file, self.data); return file
process_write(c) ==
    LET ww == wave_write(c.files, c.path, c.data, c.writeOk)
    IN  IF c.raised # "no" THEN c
        ELSE [c EXCEPT !.files = ww.files, !.raised = ww.raised,
                       !.written = (ww.raised = "no")]

process_hit_skips_write(init, rows, fs, s, file, answer, writeOk) ==
    LET c == process_check(process_enter(init, rows, fs, s, file, answer, writeOk))
    IN  IF c.hit THEN c
        ELSE process_write(process_store(process_render(c)))

process_ignores_hit(init, rows, fs, s, file, answer, writeOk) ==
    LET c == process_check(process_enter(init, rows, fs, s, file, answer, writeOk))
    IN  process_write(process_store(process_render(c)))

process_writes_before_store(init, rows, fs, s, file, answer, writeOk) ==
    LET c == process_check(process_enter(init, rows, fs, s, file, answer, writeOk))
    IN  IF c.hit THEN process_write(c)
        ELSE process_store(process_write(process_render(c)))

process(init, rows, fs, s, file, answer, writeOk) ==
    LET c == process_check(process_enter(init, rows, fs, s, file, answer, writeOk))
    IN  IF c.hit THEN process_write(c)
        ELSE process_write(process_store(process_render(c)))

(***************************************************************************)
(* The state machine of Sound objects over the cache and the file system.  *)
(***************************************************************************)
NoCall == [called |-> FALSE]
NoPack == [built |-> FALSE]
NoPolly == [built |-> FALSE]

\* The threads that run Sound.process or Pack._setup side by side.
Threads == {1, 2}
Idle == [pc |-> "idle"]

\* The string target Sound objects are processed to.
Targets == {output}

\* The arguments Sound objects are constructed with.
SoundArgs == ({"Hello"} \X Overrides) \cup ({"Goodbye"} \X {NoneConfig})

Count(bag, k) == IF k \in DOMAIN bag THEN bag[k] ELSE 0
Bump(bag, k, n) == IF n = 0 THEN bag ELSE (k :> (Count(bag, k) + n)) @@ bag

Init ==
    /\ dbInit = FALSE
    /\ table = <<>>
    /\ sounds = <<>>
    /\ files = <<>>
    /\ last = NoCall
    /\ nProcess = 0
    /\ procCalls = <<>>
    /\ backendCalls = <<>>
    /\ dirs = {}
    /\ pack = NoPack
    /\ gen = [status |-> "idle", pos |-> 0, error |-> "no"]
    /\ call = NoCall
    /\ running = [t \in Threads |-> Idle]
    /\ setups = [t \in Threads |-> Idle]
    /\ lastSetup = NoCall
    /\ polly = NoPolly

\* db.init(...); db.create_tables([CachedSound]): the cache is configured.
InitDb ==
    /\ ~dbInit
    /\ dbInit' = TRUE
    /\ UNCHANGED <<table, sounds, files, last, nProcess, procCalls, backendCalls,
                   dirs, pack, gen, call,
                   running, setups, lastSetup, polly>>

\* Sound(phrase, config)
SoundInit(phrase, config) ==
    /\ Len(sounds) < MaxSounds
    /\ sounds' = Append(sounds, Sound_new(phrase, config))
    /\ UNCHANGED <<dbInit, table, files, last, nProcess, procCalls, backendCalls,
                   dirs, pack, gen, call,
                   running, setups, lastSetup, polly>>

\* What a finished call leaves in the state; last records what it did and
\* the cache, file system and data it started from.
Apply(i, c) ==
    /\ table' = c.rows
    /\ files' = c.files
    /\ sounds' = [sounds EXCEPT ![i].data = c.data]
    /\ last' = [called |-> TRUE, op |-> "process", sound |-> i,
                key |-> SoundKey(sounds[i]),
                target |-> c.target, path |-> c.path, store |-> c.store,
                hit |-> c.hit, backend |-> c.backend, answered |-> c.answered,
                request |-> c.request, create |-> c.create,
                written |-> c.written, raised |-> c.raised,
                dataBefore |-> sounds[i].data, rowsBefore |-> table,
                filesBefore |-> files]
    /\ procCalls' = Bump(procCalls, SoundKey(sounds[i]), 1)
    /\ backendCalls' = Bump(backendCalls, SoundKey(sounds[i]), c.backend)

\* sounds[i].process(client, file), called directly.
SoundProcess(i, file, answer, writeOk) ==
    /\ nProcess < MaxCalls
    /\ Apply(i, process(dbInit, table, files, sounds[i], file, answer, writeOk))
    /\ nProcess' = nProcess + 1
    /\ UNCHANGED <<dbInit, dirs, pack, gen, call,
                   running, setups, lastSetup, polly>>

Next ==
    \/ InitDb
    \/ \E a \in SoundArgs : SoundInit(a[1], a[2])
    \/ \E i \in 1..Len(sounds), file \in Targets, answer \in BackendResults,
          writeOk \in BOOLEAN : SoundProcess(i, file, answer, writeOk)

Spec == Init /\ [][Next]_vars

(***************************************************************************)
(* Sound.process over string targets of every shape: as tests/test_sound.py *)
(* does, a Sound with the default configuration is processed to a target.  *)
(***************************************************************************)
StringTargets ==
    {output, output \o DotWav, output \o <<".", "W", "A", "V">>,
     output \o <<NL>>, output \o DotWav \o <<NL>>, <<>>, DotWav,
     <<"w", "a", "v">>}

NextTarget ==
    \/ InitDb
    \/ SoundInit("Hello", NoneConfig)
    \/ \E i \in 1..Len(sounds), file \in StringTargets, answer \in BackendResults,
          writeOk \in BOOLEAN : SoundProcess(i, file, answer, writeOk)

SpecTarget == Init /\ [][NextTarget]_vars


(***************************************************************************)
(* Pack: file names.                                                       *)
(***************************************************************************)
FilenameLength == 6
PackNameLength == 32

LowerChar(c) ==
    IF \E i \in 1..Len(UpperCase) : UpperCase[i] = c
    THEN LowerCase[CHOOSE i \in 1..Len(UpperCase) : UpperCase[i] = c]
    ELSE c

UpperChar(c) ==
    IF \E i \in 1..Len(LowerCase) : LowerCase[i] = c
    THEN UpperCase[CHOOSE i \in 1..Len(LowerCase) : LowerCase[i] = c]
    ELSE c

lower_keeps_case(s) == s

\* str.lower(), str.upper()
lower(s) == [i \in 1..Len(s) |-> LowerChar(s[i])]
upper(s) == [i \in 1..Len(s) |-> UpperChar(s[i])]

IsFilenameChar_keeps_dot(c) ==
    c \in {LowerCase[i] : i \in 1..Len(LowerCase)} \cup Digits \cup {"_", "-", "."}

\* The characters the pattern [^a-z0-9_-]+ leaves in place.
IsFilenameChar(c) ==
    c \in {LowerCase[i] : i \in 1..Len(LowerCase)} \cup Digits \cup {"_", "-"}

Slice0_one_more(s, n) ==
    LET stop == IF n >= 0 THEN n + 1 ELSE Len(s) + n
    IN  IF stop <= 0 THEN <<>>
        ELSE IF stop >= Len(s) THEN s
        ELSE SubSeq(s, 1, stop)

\* s[0:n]
Slice0(s, n) ==
    LET stop == IF n >= 0 THEN n ELSE Len(s) + n
    IN  IF stop <= 0 THEN <<>>
        ELSE IF stop >= Len(s) THEN s
        ELSE SubSeq(s, 1, stop)

\* pattern.sub("", s, count=1): only the first run of other characters goes.
RECURSIVE DropFirstRun(_, _)
DropFirstRun(s, dropping) ==
    IF s = <<>> THEN <<>>
    ELSE IF IsFilenameChar(Head(s))
         THEN IF dropping THEN s ELSE <<Head(s)>> \o DropFirstRun(Tail(s), FALSE)
    ELSE DropFirstRun(Tail(s), TRUE)

format_filename_first_run_only(name, safe_length) ==
    Slice0(DropFirstRun(lower(name), FALSE), safe_length)

\* Pack._format_filename(name, safe_length)
format_filename(name, safe_length) ==
    Slice0(SelectSeq(lower(name), IsFilenameChar), safe_length)

os_path_join_always_slash(a, b) == a \o <<"/">> \o b

\* os.path.join(a, b)
os_path_join(a, b) ==
    IF b # <<>> /\ b[1] = "/" THEN b
    ELSE IF a = <<>> \/ a[Len(a)] = "/" THEN a \o b
    ELSE a \o <<"/">> \o b

\* re.sub(r"(?:-.*)", "", language): each "-" goes with the rest of its line.
RECURSIVE StripFrom(_, _, _)
StripFrom(s, i, skipping) ==
    IF i > Len(s) THEN <<>>
    ELSE IF skipping
         THEN IF s[i] = NL THEN <<NL>> \o StripFrom(s, i + 1, FALSE)
              ELSE StripFrom(s, i + 1, TRUE)
    ELSE IF s[i] = "-" THEN StripFrom(s, i + 1, TRUE)
    ELSE <<s[i]>> \o StripFrom(s, i + 1, FALSE)

strip_localisation_keeps(language) == language

strip_localisation(language) == StripFrom(language, 1, FALSE)

(***************************************************************************)
(* Python dicts, in insertion order: sequences of <<key, value>>.          *)
(***************************************************************************)
DictKeys(d) == {d[i][1] : i \in 1..Len(d)}
DictHas(d, k) == k \in DictKeys(d)
DictIndex(d, k) == CHOOSE i \in 1..Len(d) : d[i][1] = k
DictGet(d, k) == d[DictIndex(d, k)][2]
DictSet_appends(d, k, v) == Append(d, <<k, v>>)
DictSet_keeps_first(d, k, v) == IF DictHas(d, k) THEN d ELSE Append(d, <<k, v>>)

\* d[k] = v
DictSet(d, k, v) ==
    IF DictHas(d, k) THEN [d EXCEPT ![DictIndex(d, k)] = <<k, v>>]
    ELSE Append(d, <<k, v>>)

(***************************************************************************)
(* Pack._convert_list.  Sound objects live on the heap sounds; a bucket    *)
(* maps each key to the heap index of its Sound.  base is the size of the  *)
(* heap before the call, acc.new the Sounds constructed so far.            *)
(***************************************************************************)
group_name_unchanged(group) == group

\* if group == "system": group = group.upper()
group_name(group) == IF group = system THEN upper(group) ELSE group

RECURSIVE convert_content(_, _, _, _)
convert_content(content, config, base, acc) ==
    IF content = <<>> THEN acc
    ELSE LET name == Head(content)[1]
             phrase == Head(content)[2]
             key == format_filename(name, FilenameLength)
         IN  convert_content(Tail(content), config, base,
                 [dict |-> DictSet(acc.dict, key, base + Len(acc.new) + 1),
                  new |-> Append(acc.new, Sound_new(phrase, config))])

RECURSIVE convert_groups(_, _, _, _)
convert_groups(sound_list, config, base, acc) ==
    IF sound_list = <<>> THEN acc
    ELSE LET group == group_name(Head(sound_list)[1])
             cl == convert_content(Head(sound_list)[2], config, base,
                                   [dict |-> <<>>, new |-> acc.new])
         IN  convert_groups(Tail(sound_list), config, base,
                 [output |-> DictSet(acc.output, group, cl.dict), new |-> cl.new])

convert_list(sound_list, config, base) ==
    convert_groups(sound_list, config, base, [output |-> <<>>, new |-> <<>>])

\* Pack(config): the Pack object, and in new the Sounds it constructed.
Pack_new(config, base) ==
    LET cfg == merge_config(config)
        name == format_filename(cfg["name"], PackNameLength)
        cl == convert_list(IF "sounds" \in DOMAIN cfg THEN cfg["sounds"] ELSE <<>>,
                           cfg, base)
        lang == strip_localisation(cfg["language"])
        path == os_path_join(voicepacks, name)
    IN  [built |-> TRUE, config |-> cfg, name |-> name, list |-> cl.output,
         path |-> path,
         packpath |-> os_path_join(os_path_join(os_path_join(path, SOUNDS),
                                                language_dir), lang),
         new |-> cl.new]

(***************************************************************************)
(* Pack._setup: the directories of the pack.                               *)
(***************************************************************************)
\* pathlib.Path(p): trailing slashes are dropped.
RECURSIVE Path(_)
Path(p) == IF Len(p) > 1 /\ p[Len(p)] = "/" THEN Path(SubSeq(p, 1, Len(p) - 1)) ELSE p

\* The ancestors of a relative path.
Parents(p) == {SubSeq(p, 1, i - 1) : i \in {j \in 2..Len(p) : p[j] = "/"}}

mkdir_no_exist_ok(ds, p, parents, exist_ok) ==
    LET q == Path(p)
    IN  IF q \in ds THEN [raised |-> "FileExistsError", dirs |-> ds]
        ELSE IF parents THEN [raised |-> "no", dirs |-> ds \cup Parents(q) \cup {q}]
        ELSE IF Parents(q) \subseteq ds THEN [raised |-> "no", dirs |-> ds \cup {q}]
        ELSE [raised |-> "FileNotFoundError", dirs |-> ds]

\* Path(p).mkdir(parents=..., exist_ok=...)
mkdir(ds, p, parents, exist_ok) ==
    LET q == Path(p)
    IN  IF q \in ds
        THEN [raised |-> IF exist_ok THEN "no" ELSE "FileExistsError", dirs |-> ds]
        ELSE IF parents THEN [raised |-> "no", dirs |-> ds \cup Parents(q) \cup {q}]
        ELSE IF Parents(q) \subseteq ds THEN [raised |-> "no", dirs |-> ds \cup {q}]
        ELSE [raised |-> "FileNotFoundError", dirs |-> ds]

RECURSIVE setup_groups_extra_subfolder(_, _, _)
setup_groups_extra_subfolder(r, packpath, list) ==
    IF list = <<>> \/ r.raised # "no" THEN r
    ELSE setup_groups_extra_subfolder(
             mkdir(r.dirs, os_path_join(packpath, Head(list)[1]), FALSE, TRUE),
             packpath, Tail(list))

\* for group, __ in self.list.items(): ... mkdir(exist_ok=True)
RECURSIVE setup_groups(_, _, _)
setup_groups(r, packpath, list) ==
    IF list = <<>> \/ r.raised # "no" THEN r
    ELSE LET group == IF Head(list)[1] = extra THEN <<>> ELSE Head(list)[1]
         IN  setup_groups(mkdir(r.dirs, os_path_join(packpath, group), FALSE, TRUE),
                          packpath, Tail(list))

setup(ds, pk) ==
    LET root == IF Path(pk.path) \in ds THEN [raised |-> "no", dirs |-> ds]
                ELSE mkdir(ds, pk.path, TRUE, FALSE)
        lang == IF root.raised # "no" THEN root
                ELSE mkdir(root.dirs, pk.packpath, TRUE, TRUE)
    IN  setup_groups(lang, pk.packpath, pk.list)

(***************************************************************************)
(* Pack generation: the directories are set up, then every Sound of every  *)
(* bucket is processed through Pack._process, one at a time.               *)
(***************************************************************************)
pack_process_swallows(init, rows, fs, s, filename, answer, writeOk) ==
    [process(init, rows, fs, s, filename, answer, writeOk) EXCEPT !.raised = "no"]

\* Pack._process(filename, sound)
pack_process(init, rows, fs, s, filename, answer, writeOk) ==
    process(init, rows, fs, s, filename, answer, writeOk)

RECURSIVE Units(_)
Units(list) ==
    IF list = <<>> THEN <<>>
    ELSE LET group == Head(list)[1]
             bucket == Head(list)[2]
         IN  [i \in 1..Len(bucket) |->
                  [group |-> group, key |-> bucket[i][1], ref |-> bucket[i][2]]]
             \o Units(Tail(list))

\* The file a unit is processed to: under the language directory for the
\* bucket extra, under the sub-folder named after the bucket otherwise.
UnitFile(pk, u) ==
    os_path_join(os_path_join(pk.packpath,
                              IF u.group = extra THEN <<>> ELSE u.group),
                 u.key)

\* The phrase maps packs are built from: up to MaxBuckets buckets with
\* distinct names.
BucketNames == {system, SYSTEM, extra}
weirdly == <<"w", "e", "i", "r", "d", "l", "y">>
BucketContents ==
    {<< <<<<"1">>, "Hello">> >>, << <<weirdlong, "Goodbye">> >>,
     << <<<<"1">>, "Hello">>, <<weirdlong, "Goodbye">> >>,
     << <<weirdlong, "Goodbye">>, <<weirdly, "Hello">> >>}

RECURSIVE PhraseMapsOf(_)
PhraseMapsOf(n) ==
    IF n = 0 THEN {<<>>}
    ELSE LET shorter == PhraseMapsOf(n - 1)
         IN  shorter \cup
             {Append(m, <<g, c>>) :
                 m \in {x \in shorter : Len(x) = n - 1},
                 g \in BucketNames, c \in BucketContents}

PhraseMaps == {m \in PhraseMapsOf(MaxBuckets) : Cardinality(DictKeys(m)) = Len(m)}

\* The names and languages packs are configured with: a name that is kept, one
\* with capitals, a blank and punctuation, one longer than a pack name may
\* be, one of no usable character, and two that are cut down to the same;
\* languages with no, one and two suffixes.
PackNames ==
    {default_name, <<"M", "y", " ", "P", "a", "c", "k", "!">>,
     <<"m", "y", "p", "a", "c", "k">>, UpperCase \o LowerCase, <<"@">>}
Languages ==
    {en_GB, en_US, <<"e", "n">>, <<"e", "n", "-", "G", "B", "-", "W", "L", "S">>}

\* Phrase maps with a bucket named "System", in capitals and small letters.
System == <<"S", "y", "s", "t", "e", "m">>
CasedMaps ==
    {<< <<System, << <<<<"1">>, "Hello">> >> >> >>,
     << <<System, << <<<<"1">>, "Hello">> >> >>,
        <<system, << <<weirdlong, "Goodbye">> >> >> >>}

PackConfigs ==
    {NoneConfig} \cup {[sounds |-> m] : m \in PhraseMaps \cup CasedMaps}
        \cup {[name |-> n, language |-> l] : n \in PackNames, l \in Languages}

\* Pack(config)
PackInit(config) ==
    /\ ~pack.built
    /\ LET pk == Pack_new(config, Len(sounds))
       IN  /\ pack' = [built |-> TRUE, config |-> pk.config, name |-> pk.name,
                       list |-> pk.list, path |-> pk.path, packpath |-> pk.packpath]
           /\ sounds' = sounds \o pk.new
    /\ UNCHANGED <<dbInit, table, files, last, nProcess, procCalls, backendCalls,
                   dirs, gen, call,
                   running, setups, lastSetup, polly>>

\* Generation starts: self._setup()
GenerateStart ==
    /\ pack.built
    /\ gen.status = "idle"
    /\ LET su == setup(dirs, pack)
       IN  /\ dirs' = su.dirs
           /\ gen' = IF su.raised # "no"
                     THEN [status |-> "raised", pos |-> 0, error |-> su.raised]
                     ELSE IF Units(pack.list) = <<>>
                     THEN [status |-> "done", pos |-> 0, error |-> "no"]
                     ELSE [status |-> "running", pos |-> 1, error |-> "no"]
    /\ UNCHANGED <<dbInit, table, sounds, files, last, nProcess, procCalls,
                   backendCalls, pack, call,
                   running, setups, lastSetup, polly>>

\* Generation goes on: self._process(filename, sound) for the next unit; an
\* exception ends the generation.
GenerateStep(answer, writeOk) ==
    /\ gen.status = "running"
    /\ LET u == Units(pack.list)[gen.pos]
           c == pack_process(dbInit, table, files, sounds[u.ref], UnitFile(pack, u),
                             answer, writeOk)
       IN  /\ Apply(u.ref, c)
           /\ gen' = IF c.raised # "no"
                     THEN [status |-> "raised", pos |-> gen.pos, error |-> c.raised]
                     ELSE IF gen.pos = Len(Units(pack.list))
                     THEN [status |-> "done", pos |-> gen.pos, error |-> "no"]
                     ELSE [status |-> "running", pos |-> gen.pos + 1, error |-> "no"]
    /\ nProcess' = nProcess + 1
    /\ UNCHANGED <<dbInit, dirs, pack, call,
                   running, setups, lastSetup, polly>>

NextPack ==
    \/ InitDb
    \/ \E config \in PackConfigs : PackInit(config)
    \/ GenerateStart
    \/ \E answer \in BackendResults, writeOk \in BOOLEAN : GenerateStep(answer, writeOk)

SpecPack == Init /\ [][NextPack]_vars

(***************************************************************************)
(* merge_config and _format_filename called on their own, on arguments of  *)
(* every shape: one call from the initial state.                           *)
(***************************************************************************)
MaxStr == 4         \* the length of the names built from NameChars
MaxSafe == 3        \* the small values of safe_length

\* The values a configuration gives a key: its default and another one.
ConfigKeys == {"language", "voice", "engine", "extension", "name", "sounds"}
ConfigValue(k, other) ==
    IF k = "sounds" THEN (IF other THEN <<>> ELSE << <<extra, <<>> >> >>)
    ELSE IF ~other THEN default_config[k]
    ELSE IF k = "language" THEN en_US
    ELSE IF k = "voice" THEN "Brian"
    ELSE IF k = "engine" THEN "neural"
    ELSE IF k = "extension" THEN "ogg"
    ELSE <<"M", "y", " ", "P", "a", "c", "k", "!">>

\* Every mapping of some of the keys to such values, {} among them, and None.
ConfigArgs ==
    {NoneConfig} \cup
    {[k \in {x \in ConfigKeys : c[x] # "absent"} |-> ConfigValue(k, c[k] = "other")] :
        c \in [ConfigKeys -> {"absent", "default", "other"}]}

\* The names _format_filename is called on: the names of the tests, and every
\* string of up to MaxStr characters of NameChars.
NameChars == {"a", "Z", "9", "_", "-", "."}

RECURSIVE StringsOf(_)
StringsOf(n) ==
    IF n = 0 THEN {<<>>}
    ELSE LET shorter == StringsOf(n - 1)
         IN  shorter \cup {Append(s, c) : s \in {x \in shorter : Len(x) = n - 1},
                                          c \in NameChars}

TestNames ==
    {<<"1">>, <<"t", "e", "s", "t">>, <<"v", "a", "l", "i", "d", "-">>,
     <<"t", "o", "o", "l", "o", "n", "g">>,
     <<"@", "w", "e", "i", "r", "d", "c", "h", "a", "r">>,
     <<"f", "i", "l", "e", "x", "t", ".", "w", "a", "v">>,
     <<"s", "p", "a", " ", "c", "e">>,
     weirdlong, UpperCase \o LowerCase, LowerCase \o <<"_", "-">> \o UpperCase}

Names == StringsOf(MaxStr) \cup TestNames

SafeLengths == 0..MaxSafe \cup {FilenameLength, PackNameLength}

\* pack.Pack._format_filename(name): the same with safe_length fixed.
pack_format_filename(name) ==
    LET safe_length == 6
    IN  Slice0(SelectSeq(lower(name), IsFilenameChar), safe_length)

\* txsoundgen.utils.merge_config(config)
MergeConfig(config) ==
    /\ call = NoCall
    /\ call' = [fn |-> "merge_config", config |-> config,
                result |-> merge_config(config)]
    /\ UNCHANGED <<dbInit, table, sounds, files, last, nProcess, procCalls,
                   backendCalls, dirs, pack, gen,
                   running, setups, lastSetup, polly>>

\* model.Pack._format_filename(name, safe_length); again is the result of
\* calling it on its own result.
FormatFilename(name, safe_length) ==
    /\ call = NoCall
    /\ call' = [fn |-> "format_filename", name |-> name,
                safe_length |-> safe_length,
                result |-> format_filename(name, safe_length),
                again |-> format_filename(format_filename(name, safe_length),
                                          safe_length)]
    /\ UNCHANGED <<dbInit, table, sounds, files, last, nProcess, procCalls,
                   backendCalls, dirs, pack, gen,
                   running, setups, lastSetup, polly>>

\* pack.Pack._format_filename(name)
PackFormatFilename(name) ==
    /\ call = NoCall
    /\ call' = [fn |-> "pack_format_filename", name |-> name,
                result |-> pack_format_filename(name)]
    /\ UNCHANGED <<dbInit, table, sounds, files, last, nProcess, procCalls,
                   backendCalls, dirs, pack, gen,
                   running, setups, lastSetup, polly>>

NextPure ==
    \/ call = NoCall /\ \E config \in ConfigArgs : MergeConfig(config)
    \/ call = NoCall /\ \E name \in Names, safe_length \in SafeLengths :
                            FormatFilename(name, safe_length)
    \/ call = NoCall /\ \E name \in Names : PackFormatFilename(name)

SpecPure == Init /\ [][NextPure]_vars

(***************************************************************************)
(* Sound.process run by two threads side by side over the same cache and   *)
(* file system: each statement of process is a step, and the steps of the  *)
(* two calls interleave in any order.                                      *)
(***************************************************************************)
Others ==
    <<dbInit, last, nProcess, procCalls, backendCalls, dirs, pack, gen, call,
      setups, lastSetup, polly>>

\* The call of thread t as it stands before a step: it sees the cache, the
\* file system and the Sound's data as they are now.
Current(t) ==
    [running[t] EXCEPT !.store = dbInit, !.rows = table, !.files = files,
                       !.self = sounds[running[t].sound],
                       !.data = sounds[running[t].sound].data]

\* Thread t calls sounds[i].process(client, file): the target is normalised.
ProcessBegin(t, i, file) ==
    /\ running[t].pc = "idle"
    /\ running' = [running EXCEPT ![t] =
           [pc |-> "check", sound |-> i] @@
           process_enter(dbInit, table, files, sounds[i], file, None, TRUE)]
    /\ UNCHANGED <<table, sounds, files>>
    /\ UNCHANGED Others

\* if self.check_cache():
ProcessCheck(t) ==
    /\ running[t].pc = "check"
    /\ LET c == process_check(Current(t))
       IN  /\ running' = [running EXCEPT ![t] =
                  [c EXCEPT !.pc = IF c.hit THEN "write" ELSE "render"]]
           /\ sounds' = [sounds EXCEPT ![c.sound].data = c.data]
    /\ UNCHANGED <<table, files>>
    /\ UNCHANGED Others

\* self.render(client)
ProcessRender(t, answer) ==
    /\ running[t].pc = "render"
    /\ LET c == process_render([Current(t) EXCEPT !.answer = answer])
       IN  /\ running' = [running EXCEPT ![t] =
                  [c EXCEPT !.pc = IF c.raised # "no" THEN "done" ELSE "store"]]
           /\ sounds' = [sounds EXCEPT ![c.sound].data = c.data]
    /\ UNCHANGED <<table, files>>
    /\ UNCHANGED Others

\* try: CachedSound.create(...) except peewee.InterfaceError: ...
ProcessStore(t) ==
    /\ running[t].pc = "store"
    /\ LET c == process_store(Current(t))
       IN  /\ running' = [running EXCEPT ![t] =
                  [c EXCEPT !.pc = IF c.raised # "no" THEN "done" ELSE "write"]]
           /\ table' = c.rows
    /\ UNCHANGED <<sounds, files>>
    /\ UNCHANGED Others

\* txsoundgen.audio.wave_write(file, self.data); return file
ProcessWrite(t, writeOk) ==
    /\ running[t].pc = "write"
    /\ LET c == process_write([Current(t) EXCEPT !.writeOk = writeOk])
       IN  /\ running' = [running EXCEPT ![t] = [c EXCEPT !.pc = "done"]]
           /\ files' = c.files
    /\ UNCHANGED <<table, sounds>>
    /\ UNCHANGED Others

\* The targets of the two threads.
ThreadTarget(t) == IF t = 1 THEN output ELSE <<"o", "t", "h", "e", "r">>

NextRace ==
    \/ InitDb
    \/ \E phrase \in {"Hello", "Goodbye"} : SoundInit(phrase, NoneConfig)
    \/ \E t \in Threads, i \in 1..Len(sounds) : ProcessBegin(t, i, ThreadTarget(t))
    \/ \E t \in Threads : ProcessCheck(t)
    \/ \E t \in Threads, answer \in BackendResults : ProcessRender(t, answer)
    \/ \E t \in Threads : ProcessStore(t)
    \/ \E t \in Threads, writeOk \in BOOLEAN : ProcessWrite(t, writeOk)

SpecRace == Init /\ [][NextRace]_vars

(***************************************************************************)
(* Pack._setup over a file system that already holds some of the pack's    *)
(* directories: run on its own, and run by two threads side by side, each  *)
(* statement of _setup being a step.                                       *)
(***************************************************************************)
\* The packs _setup is run for.
SetupConfigs ==
    {NoneConfig,
     [sounds |-> << <<system, << <<<<"1">>, "Hello">> >> >>,
                    <<extra, << <<weirdlong, "Goodbye">> >> >> >>],
     [name |-> <<"@">>, sounds |-> << <<SYSTEM, << <<<<"1">>, "Hello">> >> >> >>]}

\* The directories of a pack: its root, its language directory with the
\* directories above it, and the directory of each bucket.
PackTree(pk) ==
    {Path(pk.path), Path(pk.packpath)} \cup Parents(Path(pk.packpath))
        \cup {Path(os_path_join(pk.packpath,
                                IF pk.list[g][1] = extra THEN <<>> ELSE pk.list[g][1])) :
                 g \in 1..Len(pk.list)}

NoSetupYet == lastSetup = NoCall /\ \A t \in Threads : setups[t].pc = "idle"
NoSetupRunning == \A t \in Threads : setups[t].pc \in {"idle", "done"}

\* One of the pack's directories is there before _setup runs.
MakeDir(d) ==
    /\ pack.built /\ NoSetupYet
    /\ d \in PackTree(pack) \ dirs
    /\ Parents(d) \subseteq dirs
    /\ dirs' = dirs \cup {d}
    /\ UNCHANGED <<dbInit, table, sounds, files, last, nProcess, procCalls,
                   backendCalls, pack, gen, call, running, setups, lastSetup, polly>>

\* pack._setup(), run on its own from start to end; n counts the runs, up to
\* the second.
PackSetup ==
    /\ pack.built /\ NoSetupRunning
    /\ LET su == setup(dirs, pack)
       IN  /\ dirs' = su.dirs
           /\ lastSetup' = [called |-> TRUE, raised |-> su.raised,
                            dirsBefore |-> dirs,
                            n |-> IF lastSetup = NoCall THEN 1 ELSE 2]
    /\ UNCHANGED <<dbInit, table, sounds, files, last, nProcess, procCalls,
                   backendCalls, pack, gen, call, running, setups, polly>>

SetupOthers ==
    <<dbInit, table, sounds, files, last, nProcess, procCalls, backendCalls,
      pack, gen, call, running, lastSetup, polly>>

\* Thread t calls pack._setup(): path = pathlib.Path(self.path)
SetupBegin(t) ==
    /\ pack.built
    /\ setups[t].pc = "idle"
    /\ setups' = [setups EXCEPT ![t] = [pc |-> "exists", raised |-> "no", group |-> 0]]
    /\ UNCHANGED dirs
    /\ UNCHANGED SetupOthers

\* if not path.exists():
SetupExists(t) ==
    /\ setups[t].pc = "exists"
    /\ setups' = [setups EXCEPT ![t].pc =
                      IF Path(pack.path) \in dirs THEN "lang" ELSE "root"]
    /\ UNCHANGED dirs
    /\ UNCHANGED SetupOthers

\* path.mkdir(parents=True)
SetupRoot(t) ==
    /\ setups[t].pc = "root"
    /\ LET r == mkdir(dirs, pack.path, TRUE, FALSE)
       IN  /\ dirs' = r.dirs
           /\ setups' = [setups EXCEPT ![t].raised = r.raised,
                             ![t].pc = IF r.raised # "no" THEN "done" ELSE "lang"]
    /\ UNCHANGED SetupOthers

\* pathlib.Path(self.packpath).mkdir(parents=True, exist_ok=True)
SetupLang(t) ==
    /\ setups[t].pc = "lang"
    /\ LET r == mkdir(dirs, pack.packpath, TRUE, TRUE)
       IN  /\ dirs' = r.dirs
           /\ setups' = [setups EXCEPT ![t].raised = r.raised,
                             ![t].group = 1,
                             ![t].pc = IF r.raised # "no" \/ pack.list = <<>>
                                       THEN "done" ELSE "group"]
    /\ UNCHANGED SetupOthers

\* for group, __ in self.list.items(): ... mkdir(exist_ok=True), one group
SetupGroup(t) ==
    /\ setups[t].pc = "group"
    /\ LET name == pack.list[setups[t].group][1]
           group == IF name = extra THEN <<>> ELSE name
           r == mkdir(dirs, os_path_join(pack.packpath, group), FALSE, TRUE)
       IN  /\ dirs' = r.dirs
           /\ setups' = [setups EXCEPT ![t].raised = r.raised,
                             ![t].group = @ + 1,
                             ![t].pc = IF r.raised # "no"
                                          \/ setups[t].group = Len(pack.list)
                                       THEN "done" ELSE "group"]
    /\ UNCHANGED SetupOthers

NextSetup ==
    \/ \E config \in SetupConfigs : PackInit(config)
    \/ pack.built /\ \E d \in PackTree(pack) : MakeDir(d)
    \/ PackSetup
    \/ \E t \in Threads : SetupBegin(t)
    \/ \E t \in Threads : SetupExists(t)
    \/ \E t \in Threads : SetupRoot(t)
    \/ \E t \in Threads : SetupLang(t)
    \/ \E t \in Threads : SetupGroup(t)

SpecSetup == Init /\ [][NextSetup]_vars

(***************************************************************************)
(* Sound.render called on its own, among Sound.process calls.              *)
(***************************************************************************)
\* sounds[i].render(client)
SoundRender(i, answer) ==
    /\ nProcess < MaxCalls
    /\ LET rd == render(sounds[i], answer)
       IN  /\ sounds' = [sounds EXCEPT ![i].data = rd.data]
           /\ last' = [called |-> TRUE, op |-> "render", sound |-> i,
                       key |-> SoundKey(sounds[i]),
                       target |-> None, path |-> None, store |-> dbInit,
                       hit |-> FALSE, backend |-> 1, answered |-> answer,
                       request |-> rd.request, create |-> "none",
                       written |-> FALSE, raised |-> rd.raised,
                       dataBefore |-> sounds[i].data, rowsBefore |-> table,
                       filesBefore |-> files]
    /\ backendCalls' = Bump(backendCalls, SoundKey(sounds[i]), 1)
    /\ nProcess' = nProcess + 1
    /\ UNCHANGED <<dbInit, table, files, procCalls, dirs, pack, gen, call,
                   running, setups, lastSetup, polly>>

NextRender ==
    \/ InitDb
    \/ \E a \in SoundArgs : SoundInit(a[1], a[2])
    \/ \E i \in 1..Len(sounds), file \in Targets, answer \in BackendResults,
          writeOk \in BOOLEAN : SoundProcess(i, file, answer, writeOk)
    \/ \E i \in 1..Len(sounds), answer \in BackendResults : SoundRender(i, answer)

SpecRender == Init /\ [][NextRender]_vars

(***************************************************************************)
(* providers.Polly: the provider object and the request its process sends  *)
(* to the service (session and authentication left aside).                 *)
(***************************************************************************)
\* provider_config["polly"]
provider_config_polly ==
    [voice |-> "Amy", language |-> "en-GB", engine |-> "standard"]

\* The config argument of Polly(...); left out, it is provider_config["polly"].
PollyConfigs ==
    [voice : {"Amy", "Brian"}, language : {"en-GB", "en-US"},
     engine : {"standard", "neural"}]

\* Polly.__init__(session, config): self._config is assigned config, and
\* after the clients are made it is assigned provider_config["polly"].
Polly_new(config) ==
    LET first == [built |-> TRUE, given |-> config, _config |-> config,
                  called |-> FALSE]
    IN  [first EXCEPT !._config = provider_config_polly]

\* a or b
Or(a, b) == IF a = None \/ a = "" THEN b ELSE a

\* Polly.process(text, voice, language): the arguments of synthesize_speech.
Polly_process(p, text, voice, language) ==
    [Text |-> <<"<speak>", text, "<break strength=\"weak\"/></speak>">>,
     VoiceId |-> Or(voice, p._config["voice"]),
     LanguageCode |-> Or(language, p._config["language"]),
     Engine |-> p._config["engine"],
     TextType |-> "ssml", OutputFormat |-> "pcm"]

PollyOthers ==
    <<dbInit, table, sounds, files, last, nProcess, procCalls, backendCalls,
      dirs, pack, gen, call, running, setups, lastSetup>>

\* Polly(config=config)
PollyInit(config) ==
    /\ ~polly.built
    /\ polly' = Polly_new(config)
    /\ UNCHANGED PollyOthers

\* polly.process(text, voice, language); None is an argument left out.
PollyProcess(text, voice, language) ==
    /\ polly.built
    /\ polly' = [built |-> TRUE, given |-> polly.given, _config |-> polly._config,
                 called |-> TRUE, text |-> text, voice |-> voice,
                 language |-> language,
                 request |-> Polly_process(polly, text, voice, language)]
    /\ UNCHANGED PollyOthers

NextPolly ==
    \/ \E config \in PollyConfigs : PollyInit(config)
    \/ \E text \in {"Hello", "Goodbye"}, voice \in {None, "Matthew"},
          language \in {None, "en-US", "en-GB"} : PollyProcess(text, voice, language)

SpecPolly == Init /\ [][NextPolly]_vars

(***************************************************************************)
(* Properties of Sound.process and the cache.                              *)
(***************************************************************************)
Returned == last.called /\ last.raised = "no"

\* The fields in which a cache row differs from a lookup key.
DifferingFields(row, key) ==
    {f \in {"engine", "language", "voice", "service", "phrase"} : row[f] # key[f]}

\* The rows stored under exactly the key, field by field.
RowsFor(rows, key) == {i \in 1..Len(rows) : DifferingFields(rows[i], key) = {}}

\* C1: whenever Sound.process returns normally, the file at the returned
\* path exists and its audio payload is exactly the Sound's in-memory data,
\* which is audio bytes, on the cache-hit branch and on the render branch.
C1_ReturnedFileHoldsData ==
    Returned =>
        /\ last.path \in DOMAIN files
        /\ files[last.path].format = "WAVE"
        /\ files[last.path].payload = sounds[last.sound].data
        /\ sounds[last.sound].data \in Bytes
        /\ last.hit \/ last.backend = 1

C1_Witness == Returned /\ last.hit /\ last.path \notin DOMAIN last.filesBefore

\* C2: on a cache hit the backend is not invoked, the Sound's data becomes
\* the cached bytes and the cache is left as it was.
C2_HitSkipsBackend ==
    (last.called /\ last.hit) =>
        /\ last.backend = 0
        /\ \E i \in RowsFor(last.rowsBefore, last.key) :
               sounds[last.sound].data = last.rowsBefore[i].data
        /\ table = last.rowsBefore
        /\ last.create = "none"

C2_Witness ==
    /\ last.called /\ last.hit
    /\ last.dataBefore # sounds[last.sound].data

\* C3 (as amended): a key with no stored row misses; a successful store
\* appends exactly the row (k, v); rows already stored are never changed or
\* removed; and every lookup of a key that has a row hits, yields exactly the
\* stored bytes and makes no backend call, whichever Sound asks.
C3_RoundTripMissThenHit ==
    last.called =>
        /\ RowsFor(last.rowsBefore, last.key) = {} => ~last.hit
        /\ SubSeq(table, 1, Len(last.rowsBefore)) = last.rowsBefore
        /\ last.create = "no" =>
               /\ last.backend = 1
               /\ last.answered \in Bytes
               /\ table = Append(last.rowsBefore,
                                 [engine |-> last.key.engine,
                                  language |-> last.key.language,
                                  voice |-> last.key.voice,
                                  service |-> last.key.service,
                                  phrase |-> last.key.phrase,
                                  data |-> last.answered])
        /\ last.create # "no" => table = last.rowsBefore
        /\ RowsFor(last.rowsBefore, last.key) # {} =>
               /\ last.hit
               /\ last.backend = 0
               /\ \A i \in RowsFor(last.rowsBefore, last.key) :
                      sounds[last.sound].data = last.rowsBefore[i].data

C3_Witness ==
    /\ last.called /\ last.hit
    /\ \E j \in 1..Len(sounds) :
           /\ j # last.sound
           /\ SoundKey(sounds[j]) = last.key
           /\ sounds[j].data = sounds[last.sound].data
    /\ Count(backendCalls, last.key) = 1

\* C3 as stated: the above, and the backend is invoked at most once for any
\* key that has been stored.
C3_BackendAtMostOncePerKey ==
    /\ C3_RoundTripMissThenHit
    /\ \A k \in DOMAIN backendCalls :
           RowsFor(table, k) # {} => backendCalls[k] <= 1

\* C4: with no backing store configured every process call is a miss that
\* invokes the backend exactly once; when the backend answers, the failed
\* store is swallowed and the call goes on to write the file and return
\* (only the file write itself can still fail); so n calls for a key give
\* n backend calls for it.
C4_CacheDisabledFallback ==
    /\ (last.called /\ ~last.store) =>
           /\ ~last.hit
           /\ last.backend = 1
           /\ table = last.rowsBefore
           /\ last.answered \in Bytes =>
                  /\ last.create = "InterfaceError"
                  /\ sounds[last.sound].data = last.answered
                  /\ last.raised \in {"no", "IOError"}
           /\ last.raised = "no" =>
                  /\ last.written
                  /\ last.path \in DOMAIN files
                  /\ files[last.path].payload = sounds[last.sound].data
    /\ ~dbInit =>
           /\ table = <<>>
           /\ \A k \in DOMAIN procCalls : Count(backendCalls, k) = procCalls[k]

C4_Witness ==
    /\ ~dbInit
    /\ Returned /\ last.written /\ last.create = "InterfaceError"
    /\ procCalls[last.key] >= 2
    /\ backendCalls[last.key] = procCalls[last.key]

\* C5: a store conflict (the rendered bytes are already the audio_bytes of an
\* entry stored under another key) is swallowed: the rendered bytes are
\* written to the output file and process returns the path.
C5_StoreConflictNonFatal ==
    (last.called /\ last.create = "IntegrityError") =>
        /\ last.raised = "no"
        /\ last.written
        /\ last.path \in DOMAIN files
        /\ files[last.path].payload = sounds[last.sound].data

\* C6: a backend failure on a miss propagates out of process after a single
\* backend invocation and leaves the cache, the file system and the Sound's
\* data as they were.
C6_BackendFailureLeavesState ==
    (last.called /\ last.answered = BackendError) =>
        /\ last.raised = BackendError
        /\ last.backend = 1
        /\ ~last.hit
        /\ last.create = "none"
        /\ ~last.written
        /\ table = last.rowsBefore
        /\ files = last.filesBefore
        /\ sounds[last.sound].data = last.dataBefore

C6_Witness ==
    /\ last.called /\ last.answered = BackendError
    /\ last.dataBefore \in Bytes
    /\ last.store

\* C9: for a string target process appends ".wav" exactly when the target
\* does not already end in ".wav" (case-sensitive); the resulting path ends
\* in ".wav", is the only path written to, and normalising it again changes
\* nothing.
EndsInWav(t) == Len(t) >= 4 /\ SubSeq(t, Len(t) - 3, Len(t)) = DotWav

C9_AppendsWavUnlessPresent ==
    last.called =>
        /\ last.path = IF EndsInWav(last.target) THEN last.target
                       ELSE last.target \o DotWav
        /\ EndsInWav(last.path)
        /\ normalise_target(last.path) = last.path
        /\ last.written => last.path \in DOMAIN files
        /\ DOMAIN files \subseteq DOMAIN last.filesBefore \cup {last.path}

\* C9 without the append clause, to locate the divergence: it holds.
C9_EndsInWavAndStable ==
    last.called =>
        /\ EndsInWav(last.path)
        /\ normalise_target(last.path) = last.path
        /\ (last.target = <<>> \/ last.target[Len(last.target)] # NL) =>
               last.path = IF EndsInWav(last.target) THEN last.target
                           ELSE last.target \o DotWav

\* C7: a Sound receives cached bytes only from a row equal to its key in all
\* five fields; when every stored row differs from the key in some field the
\* lookup is a miss and the backend is invoked.
C7_ExactMatchOnFiveFields ==
    last.called =>
        /\ last.hit =>
               \E i \in 1..Len(last.rowsBefore) :
                   /\ DifferingFields(last.rowsBefore[i], last.key) = {}
                   /\ sounds[last.sound].data = last.rowsBefore[i].data
        /\ (\A i \in 1..Len(last.rowsBefore) :
                DifferingFields(last.rowsBefore[i], last.key) # {}) =>
               ~last.hit /\ last.backend = 1

C7_Witness ==
    /\ last.called /\ ~last.hit /\ last.backend = 1
    /\ \E i \in 1..Len(last.rowsBefore) :
           Cardinality(DifferingFields(last.rowsBefore[i], last.key)) = 1

(***************************************************************************)
(* Properties of the Pack assembler.                                       *)
(***************************************************************************)
PackUnits == Units(pack.list)

\* The units the generation has called process for: all before gen.pos, and
\* the one at gen.pos once the generation has ended there.
Attempted == IF gen.status = "running" THEN gen.pos - 1 ELSE gen.pos

UnitPath(j) == normalise_target(UnitFile(pack, PackUnits[j]))

\* C8: pack generation is fail-fast.  Units are processed one at a time in
\* the order of the pack's buckets and of the ids within a bucket; a failing
\* process call ends the generation with its error; units after the failing
\* one are never processed (their Sounds hold no data, their files do not
\* exist, no backend call or cache row is made for them), and the files of
\* the units before it stay on disk.
C8_FailFastInOrder ==
    (pack.built /\ gen.status # "idle") =>
        /\ nProcess = Attempted
        /\ last.called =>
               /\ last.sound = PackUnits[Attempted].ref
               /\ last.target = UnitFile(pack, PackUnits[Attempted])
               /\ (last.answered = BackendError \/ last.raised # "no") =>
                      /\ gen.status = "raised"
                      /\ gen.error # "no"
                      /\ last.answered = BackendError => gen.error = BackendError
        /\ gen.status = "raised" => Attempted >= 1 /\ last.raised = gen.error
        /\ \A j \in 1..Len(PackUnits) :
               /\ (j < Attempted \/ (j = Attempted /\ gen.status # "raised")) =>
                      /\ UnitPath(j) \in DOMAIN files
                      /\ sounds[PackUnits[j].ref].data \in Bytes
                      /\ files[UnitPath(j)].payload = sounds[PackUnits[j].ref].data
               /\ j > Attempted =>
                      /\ UnitPath(j) \notin DOMAIN files
                      /\ sounds[PackUnits[j].ref].data = None
        /\ Len(table) <= Attempted
        /\ \A k \in DOMAIN backendCalls : backendCalls[k] <= Attempted

C8_Witness ==
    /\ pack.built /\ gen.status = "raised"
    /\ last.answered = BackendError
    /\ Attempted = 2
    /\ Len(PackUnits) >= 3
    /\ UnitPath(1) \in DOMAIN files

\* The buckets of the phrase map the pack was built from.
InputMap == IF "sounds" \in DOMAIN pack.config THEN pack.config["sounds"] ELSE <<>>

\* The <<key, phrase>> pairs a bucket of the assembled pack holds.
Holds(bucket) == {<<bucket[i][1], sounds[bucket[i][2]].phrase>> : i \in 1..Len(bucket)}

\* The <<key, phrase>> pairs an input bucket asks for: each id cut down to a
\* file name, the last phrase given for a file name standing.
AskedFor(content) ==
    {<<format_filename(content[i][1], FilenameLength), content[i][2]>> :
        i \in {j \in 1..Len(content) :
                 \A l \in (j + 1)..Len(content) :
                     format_filename(content[l][1], FilenameLength)
                         # format_filename(content[j][1], FilenameLength)}}

\* C10 (as amended): for an input phrase map with a bucket named exactly
\* "system", the assembled pack has the key "SYSTEM" and not the key
\* "system"; "SYSTEM" holds that bucket's sounds unless the input has a later
\* bucket named "SYSTEM", whose sounds it holds instead.
C10_SystemBucketRenamed ==
    pack.built =>
        \A b \in 1..Len(InputMap) :
            InputMap[b][1] = system =>
                /\ DictHas(pack.list, SYSTEM)
                /\ ~DictHas(pack.list, system)
                /\ (\A l \in (b + 1)..Len(InputMap) : InputMap[l][1] # SYSTEM) =>
                       Holds(DictGet(pack.list, SYSTEM)) = AskedFor(InputMap[b][2])
                /\ \A l \in (b + 1)..Len(InputMap) :
                       InputMap[l][1] = SYSTEM =>
                           Holds(DictGet(pack.list, SYSTEM)) = AskedFor(InputMap[l][2])

C10_Witness ==
    /\ pack.built
    /\ \E b \in 1..Len(InputMap) :
           /\ InputMap[b][1] = system
           /\ Len(InputMap[b][2]) = 2
           /\ Len(DictGet(pack.list, SYSTEM)) = 2
    /\ Len(pack.list) = 2

\* C10 as stated: "SYSTEM" holds the sounds of the bucket named "system",
\* whatever else the input holds.
C10_SystemHoldsSystemSounds ==
    pack.built =>
        \A b \in 1..Len(InputMap) :
            InputMap[b][1] = system =>
                /\ DictHas(pack.list, SYSTEM)
                /\ ~DictHas(pack.list, system)
                /\ Holds(DictGet(pack.list, SYSTEM)) = AskedFor(InputMap[b][2])

\* The input buckets the assembled bucket named g was built from, and the
\* last of them, whose conversion is the one output[g] keeps.
SourcesOf(g) == {b \in 1..Len(InputMap) : group_name(InputMap[b][1]) = g}
Standing(b) == \A l \in (b + 1)..Len(InputMap) :
                   group_name(InputMap[l][1]) # group_name(InputMap[b][1])

\* C11 (as amended): for every (sound_id, phrase) pair of every input bucket
\* that no later input bucket replaces, the assembled bucket contains the key
\* sanitize(sound_id, 6); every value of every assembled bucket is a Sound
\* that was constructed by the pack, has the phrase an input bucket the
\* assembled bucket comes from gives for that key, and has the pack's merged
\* configuration.
C11_BucketsHoldSanitizedKeys ==
    pack.built =>
        /\ \A b \in 1..Len(InputMap) :
               /\ DictHas(pack.list, group_name(InputMap[b][1]))
               /\ Standing(b) =>
                      \A i \in 1..Len(InputMap[b][2]) :
                          DictHas(DictGet(pack.list, group_name(InputMap[b][1])),
                                  format_filename(InputMap[b][2][i][1], FilenameLength))
        /\ \A g \in 1..Len(pack.list) :
               \A e \in 1..Len(pack.list[g][2]) :
                   LET ref == pack.list[g][2][e][2]
                   IN  /\ ref \in 1..Len(sounds)
                       /\ sounds[ref].config = pack.config
                       /\ pack.config = merge_config(pack.config)
                       /\ sounds[ref].service = "Polly"
                       /\ \E b \in SourcesOf(pack.list[g][1]) :
                              \E i \in 1..Len(InputMap[b][2]) :
                                  /\ InputMap[b][2][i][2] = sounds[ref].phrase
                                  /\ format_filename(InputMap[b][2][i][1], FilenameLength)
                                         = pack.list[g][2][e][1]

C11_Witness ==
    /\ pack.built
    /\ Len(pack.list) = 2
    /\ \E g \in 1..Len(pack.list) :
           /\ Len(pack.list[g][2]) = 2
           /\ DictHas(pack.list[g][2], SubSeq(weirdlong, 1, FilenameLength))
           /\ sounds[DictGet(pack.list[g][2], SubSeq(weirdlong, 1, FilenameLength))].phrase
                  = "Goodbye"
    /\ "sounds" \in DOMAIN pack.config

\* C11 as stated: the key of every pair of every input bucket is in the
\* assembled bucket, whatever buckets follow it in the input.
C11_EveryInputPairHasItsKey ==
    pack.built =>
        \A b \in 1..Len(InputMap) :
            \A i \in 1..Len(InputMap[b][2]) :
                /\ DictHas(pack.list, group_name(InputMap[b][1]))
                /\ DictHas(DictGet(pack.list, group_name(InputMap[b][1])),
                           format_filename(InputMap[b][2][i][1], FilenameLength))

\* The part of a language code before its first hyphen.
FirstHyphen(l) ==
    IF \E i \in 1..Len(l) : l[i] = "-"
    THEN CHOOSE i \in 1..Len(l) : l[i] = "-" /\ \A j \in 1..(i - 1) : l[j] # "-"
    ELSE Len(l) + 1
LangBase(l) == SubSeq(l, 1, FirstHyphen(l) - 1)

Slash == <<"/">>

\* C12 (as amended): name = sanitize(config.name, 32); path is "voicepacks/"
\* followed by name; packpath is path, "/" when name is not empty,
\* "SOUNDS/language/" and the language up to its first hyphen; the default
\* configuration gives voicepacks/default/SOUNDS/language/en.
C12_PackTargets ==
    pack.built =>
        LET name == format_filename(pack.config["name"], PackNameLength)
            tail == SOUNDS \o Slash \o language_dir \o Slash
                        \o LangBase(pack.config["language"])
        IN  /\ pack.name = name
            /\ Len(pack.name) <= PackNameLength
            /\ pack.path = voicepacks \o Slash \o name
            /\ pack.packpath = IF name = <<>> THEN voicepacks \o Slash \o tail
                               ELSE voicepacks \o Slash \o name \o Slash \o tail
            /\ (pack.config["name"] = default_name /\ pack.config["language"] = en_GB) =>
                   pack.packpath = voicepacks \o Slash \o default_name \o Slash \o SOUNDS
                                       \o Slash \o language_dir \o <<"/", "e", "n">>

C12_Witness ==
    /\ pack.built
    /\ pack.name = <<"m", "y", "p", "a", "c", "k">>
    /\ pack.config["language"] = <<"e", "n", "-", "G", "B", "-", "W", "L", "S">>
    /\ pack.packpath = voicepacks \o Slash \o pack.name \o Slash \o SOUNDS \o Slash
                           \o language_dir \o <<"/", "e", "n">>

\* C12 as stated: packpath is voicepacks/<name>/SOUNDS/language/<lang_base>
\* for every name.
C12_PackpathHasNameSegment ==
    pack.built =>
        /\ pack.name = format_filename(pack.config["name"], PackNameLength)
        /\ pack.path = voicepacks \o Slash \o pack.name
        /\ pack.packpath = voicepacks \o Slash \o pack.name \o Slash \o SOUNDS \o Slash
                               \o language_dir \o Slash
                               \o LangBase(pack.config["language"])

\* The directory of a bucket of the pack, and the directories of the pack.
BucketDir(g) == IF g = extra THEN pack.packpath ELSE pack.packpath \o Slash \o g

PackDirs ==
    {Path(pack.path), pack.packpath}
        \cup {SubSeq(pack.packpath, 1, i - 1) :
                 i \in {j \in 2..Len(pack.packpath) : pack.packpath[j] = "/"}}
        \cup {BucketDir(pack.list[g][1]) : g \in 1..Len(pack.list)}

ScenarioMap ==
    << <<system, << <<<<"1">>, "Hello">> >> >>,
       <<extra, << <<weirdlong, "Goodbye">> >> >> >>

DefaultLangDir ==
    voicepacks \o Slash \o default_name \o Slash \o SOUNDS \o Slash
        \o language_dir \o <<"/", "e", "n">>

ScenarioTargets ==
    {DefaultLangDir \o Slash \o SYSTEM \o <<"/", "1">> \o DotWav,
     DefaultLangDir \o <<"/", "w", "e", "i", "r", "d", "l">> \o DotWav}

\* C13: once the directories of a pack are set up, the bucket "extra" has no
\* directory of its own (its files go to the language directory), every
\* other bucket has the sub-folder of the language directory named after it,
\* and nothing else is created; every unit's target is its key with ".wav"
\* in its bucket's directory; and the phrase map {system: {1: Hello},
\* extra: {weirdlong: Goodbye}} with the default configuration, generated to
\* the end, leaves exactly .../en/SYSTEM/1.wav and .../en/weirdl.wav.
C13_BucketDirectories ==
    (pack.built /\ gen.status # "idle") =>
        /\ gen.error \notin {"FileExistsError", "FileNotFoundError"}
        /\ dirs = PackDirs
        /\ \A g \in 1..Len(pack.list) :
               IF pack.list[g][1] = extra
               THEN pack.packpath \o Slash \o extra \notin dirs
               ELSE pack.packpath \o Slash \o pack.list[g][1] \in dirs
        /\ \A j \in 1..Len(PackUnits) :
               UnitPath(j) = BucketDir(PackUnits[j].group) \o Slash
                                 \o PackUnits[j].key \o DotWav
        /\ DOMAIN files \subseteq {UnitPath(j) : j \in 1..Len(PackUnits)}
        /\ gen.status = "done" => DOMAIN files = {UnitPath(j) : j \in 1..Len(PackUnits)}
        /\ (gen.status = "done" /\ InputMap = ScenarioMap) =>
               DOMAIN files = ScenarioTargets

C13_Witness ==
    /\ pack.built /\ gen.status = "done"
    /\ InputMap = ScenarioMap
    /\ pack.config["name"] = default_name
    /\ DOMAIN files = ScenarioTargets
    /\ DefaultLangDir \o Slash \o SYSTEM \in dirs
    /\ DefaultLangDir \o Slash \o extra \notin dirs

(***************************************************************************)
(* Properties of merge_config and of the file name sanitizer.              *)
(***************************************************************************)
Merged == call # NoCall /\ call.fn = "merge_config"

\* C14: merge_config(overrides) has the keys of the defaults and of the
\* overrides; every key of overrides has the override's value, every other
\* key its default (language en-GB, voice Amy, engine standard, extension
\* wav, name default); merge_config(None) and merge_config({}) are the
\* defaults exactly.
C14_MergeOverridesPointwise ==
    Merged =>
        LET given == IF call.config = NoneConfig THEN {} ELSE DOMAIN call.config
        IN  /\ DOMAIN call.result
                   = {"language", "voice", "engine", "extension", "name"} \cup given
            /\ \A k \in given : call.result[k] = call.config[k]
            /\ "language" \notin given => call.result["language"] = en_GB
            /\ "voice" \notin given => call.result["voice"] = "Amy"
            /\ "engine" \notin given => call.result["engine"] = "standard"
            /\ "extension" \notin given => call.result["extension"] = "wav"
            /\ "name" \notin given => call.result["name"] = default_name
            /\ given = {} => call.result = default_config

C14_Witness ==
    /\ Merged
    /\ call.config # NoneConfig
    /\ DOMAIN call.config = {"language", "sounds"}
    /\ call.result["language"] = en_US
    /\ call.result["voice"] = "Amy"

Sanitized == call # NoCall /\ call.fn = "format_filename"

\* The characters a file name may hold, one by one.
SafeChars ==
    {"a", "b", "c", "d", "e", "f", "g", "h", "i", "j", "k", "l", "m", "n", "o",
     "p", "q", "r", "s", "t", "u", "v", "w", "x", "y", "z",
     "0", "1", "2", "3", "4", "5", "6", "7", "8", "9", "_", "-"}

IsSafe(s) == \A i \in 1..Len(s) : s[i] \in SafeChars

\* C15: the sanitizer is idempotent: sanitizing its result again with the
\* same max length gives the result; and a name of at most max length
\* characters, all of [a-z0-9_-], is returned unchanged ("1", "test" and
\* "valid-" at length 6 among them).
C15_SanitizerIdempotent ==
    Sanitized =>
        /\ call.again = call.result
        /\ (IsSafe(call.name) /\ Len(call.name) <= call.safe_length) =>
               call.result = call.name
        /\ (call.safe_length = FilenameLength
                /\ call.name \in {<<"1">>, <<"t", "e", "s", "t">>,
                                  <<"v", "a", "l", "i", "d", "-">>}) =>
               call.result = call.name

C15_Witness ==
    /\ Sanitized
    /\ call.result # call.name
    /\ call.result # <<>>
    /\ call.again = call.result
    /\ Len(call.name) > call.safe_length
    /\ ~IsSafe(call.name)

\* C16: the sanitizer's result has at most max length characters, for every
\* name and every max length >= 0 (6 and 32 among them).
C16_SanitizerLengthBound ==
    Sanitized => Len(call.result) <= call.safe_length

C16_Witness ==
    /\ Sanitized
    /\ call.safe_length = PackNameLength
    /\ Len(call.name) > PackNameLength
    /\ Len(call.result) = PackNameLength

\* C17: every character of the sanitizer's result is an ASCII lower-case
\* letter, a digit, an underscore or a hyphen.
C17_SanitizerCharset ==
    (call # NoCall /\ call.fn \in {"format_filename", "pack_format_filename"}) =>
        \A i \in 1..Len(call.result) : call.result[i] \in SafeChars

C17_Witness ==
    /\ Sanitized
    /\ \E i \in 1..Len(call.name) : call.name[i] = "."
    /\ \E i \in 1..Len(call.name) : call.name[i] = "Z"
    /\ Len(call.result) = 3
    /\ call.safe_length = 3

\* The reference: lower-case the name, delete every character outside
\* [a-z0-9_-] keeping the others in order, keep the first n characters.
LowerOf(c) ==
    CASE c = "A" -> "a" [] c = "B" -> "b" [] c = "C" -> "c" [] c = "D" -> "d"
      [] c = "E" -> "e" [] c = "F" -> "f" [] c = "G" -> "g" [] c = "H" -> "h"
      [] c = "I" -> "i" [] c = "J" -> "j" [] c = "K" -> "k" [] c = "L" -> "l"
      [] c = "M" -> "m" [] c = "N" -> "n" [] c = "O" -> "o" [] c = "P" -> "p"
      [] c = "Q" -> "q" [] c = "R" -> "r" [] c = "S" -> "s" [] c = "T" -> "t"
      [] c = "U" -> "u" [] c = "V" -> "v" [] c = "W" -> "w" [] c = "X" -> "x"
      [] c = "Y" -> "y" [] c = "Z" -> "z" [] OTHER -> c

RECURSIVE Reference(_, _)
Reference(name, n) ==
    IF name = <<>> \/ n <= 0 THEN <<>>
    ELSE IF LowerOf(Head(name)) \in SafeChars
         THEN <<LowerOf(Head(name))>> \o Reference(Tail(name), n - 1)
    ELSE Reference(Tail(name), n)

\* C18: the sanitizer's result is that of the reference for every name and
\* max length; "toolong" gives "toolon", "@weirdchar" "weirdc", "filext.wav"
\* "filext" and "spa ce" "space"; and pack.Pack's sanitizer gives what
\* model.Pack's gives at max length 6.
C18_SanitizerIsReference ==
    /\ Sanitized =>
           /\ call.result = Reference(call.name, call.safe_length)
           /\ call.safe_length = FilenameLength =>
                  /\ call.name = <<"t", "o", "o", "l", "o", "n", "g">> =>
                         call.result = <<"t", "o", "o", "l", "o", "n">>
                  /\ call.name = <<"@", "w", "e", "i", "r", "d", "c", "h", "a", "r">> =>
                         call.result = <<"w", "e", "i", "r", "d", "c">>
                  /\ call.name = <<"f", "i", "l", "e", "x", "t", ".", "w", "a", "v">> =>
                         call.result = <<"f", "i", "l", "e", "x", "t">>
                  /\ call.name = <<"s", "p", "a", " ", "c", "e">> =>
                         call.result = <<"s", "p", "a", "c", "e">>
    /\ (call # NoCall /\ call.fn = "pack_format_filename") =>
           /\ call.result = Reference(call.name, 6)
           /\ call.result = format_filename(call.name, FilenameLength)

C18_Witness ==
    /\ call # NoCall /\ call.fn = "pack_format_filename"
    /\ call.name = LowerCase \o <<"_", "-">> \o UpperCase
    /\ call.result = <<"a", "b", "c", "d", "e", "f">>

\* The file names the ids of an input bucket are cut down to.
SanitizedIds(content) ==
    {format_filename(content[i][1], FilenameLength) : i \in 1..Len(content)}

\* C19: sanitization collisions are silent.  The pack is constructed
\* whatever ids the input holds; an assembled bucket has one entry per
\* distinct sanitized id of the input bucket it was built from, so two ids
\* that sanitize to the same key leave exactly one Sound under it (the one of
\* the id given last).
C19_CollisionsAreSilent ==
    pack.built =>
        /\ Len(pack.list) = Cardinality({group_name(InputMap[b][1]) : b \in 1..Len(InputMap)})
        /\ \A b \in 1..Len(InputMap) :
               Standing(b) =>
                   LET bucket == DictGet(pack.list, group_name(InputMap[b][1]))
                       content == InputMap[b][2]
                   IN  /\ Len(bucket) = Cardinality(SanitizedIds(content))
                       /\ DictKeys(bucket) = SanitizedIds(content)
                       /\ \A k \in DictKeys(bucket) :
                              /\ Cardinality({e \in 1..Len(bucket) : bucket[e][1] = k}) = 1
                              /\ \E i \in 1..Len(content) :
                                     /\ format_filename(content[i][1], FilenameLength) = k
                                     /\ sounds[DictGet(bucket, k)].phrase = content[i][2]
                                     /\ \A l \in (i + 1)..Len(content) :
                                            format_filename(content[l][1], FilenameLength) # k

C19_Witness ==
    /\ pack.built
    /\ Len(InputMap) = 1
    /\ Len(InputMap[1][2]) = 2
    /\ InputMap[1][2][1][1] # InputMap[1][2][2][1]
    /\ Len(pack.list[1][2]) = 1
    /\ pack.list[1][2][1][1] = <<"w", "e", "i", "r", "d", "l">>
    /\ sounds[pack.list[1][2][1][2]].phrase = "Hello"
    /\ Len(sounds) = 2

\* C20: after any sequence of Sound.process calls made one after another,
\* the cache holds at most one row for each (engine, language, voice,
\* service, phrase): no two rows agree in all five fields.
C20_OneRowPerKey ==
    \A i \in 1..Len(table) :
        \A j \in 1..Len(table) :
            DifferingFields(table[i], table[j]) = {} => i = j

C20_Witness ==
    /\ last.called /\ last.store
    /\ procCalls[last.key] = 2
    /\ Len(last.rowsBefore) = 1
    /\ Len(table) = 1
    /\ DifferingFields(table[1], last.key) = {}
    /\ last.hit

(***************************************************************************)
(* Properties of Sound.process calls that run side by side.                *)
(***************************************************************************)
\* The call of thread t has ended after a miss on a configured cache, a
\* render that the backend answered and a file write that did not fail.
RacedMiss(t) ==
    /\ running[t].pc = "done"
    /\ running[t].store /\ ~running[t].hit
    /\ running[t].answered \in Bytes
    /\ running[t].writeOk

\* C21: when two process calls for the same key have both observed a miss
\* before either stored, the cache ends with at most one row for the key
\* and both calls have written their files and returned normally.
C21_AtMostOneWinningWriter ==
    (/\ RacedMiss(1) /\ RacedMiss(2)
     /\ SoundKey(running[1].self) = SoundKey(running[2].self)) =>
        /\ Cardinality(RowsFor(table, SoundKey(running[1].self))) <= 1
        /\ \A t \in Threads :
               /\ running[t].raised = "no"
               /\ running[t].written
               /\ running[t].path \in DOMAIN files

(***************************************************************************)
(* Properties of Pack._setup.                                              *)
(***************************************************************************)
\* C22: when two _setup runs for the same root path are interleaved in any
\* order, neither fails with an "already exists" error, and once both have
\* ended the directory tree is that of a single run.
C22_ConcurrentSetupIdempotent ==
    \A t \in Threads :
        setups[t].pc = "done" =>
            /\ setups[t].raised # "FileExistsError"
            /\ (\A u \in Threads : setups[u].pc = "done") => dirs = PackDirs

\* C23: run on its own, from a file system holding any part of the pack's
\* tree, _setup succeeds and leaves exactly the full tree (root, language
\* path with the directories above it, per-bucket sub-folders); a second run
\* succeeds and changes nothing.
C23_SetupIdempotent ==
    lastSetup.called =>
        /\ lastSetup.raised = "no"
        /\ lastSetup.dirsBefore \subseteq PackDirs
        /\ dirs = PackDirs
        /\ lastSetup.n = 2 => lastSetup.dirsBefore = dirs

C23_Witness ==
    /\ lastSetup.called /\ lastSetup.n = 2
    /\ lastSetup.dirsBefore = dirs
    /\ Cardinality(dirs) >= 6
    /\ \A t \in Threads : setups[t].pc = "idle"

(***************************************************************************)
(* Properties of a Sound's data and of Sound.render.                       *)
(***************************************************************************)
\* C24: a Sound's data is set once.  It is absent until a cache hit or a
\* completed render sets it, and once it is set no later render or process
\* call on the Sound changes it.
C24_DataSetOnce ==
    last.called =>
        /\ (last.dataBefore = None /\ sounds[last.sound].data # None) =>
               \/ last.hit
               \/ last.backend = 1 /\ sounds[last.sound].data = last.answered
        /\ last.dataBefore # None => sounds[last.sound].data = last.dataBefore

\* C25: every render call invokes the backend exactly once, whatever the
\* cache holds and whether or not data is set, passing the Sound's phrase
\* with the voice, language and engine of the Sound's configuration, and
\* stores the bytes the backend returns as the Sound's data.
C25_RenderPassesConfig ==
    (last.called /\ last.op = "render") =>
        /\ last.backend = 1
        /\ last.request.phrase = sounds[last.sound].phrase
        /\ last.request.voice = sounds[last.sound].config["voice"]
        /\ last.request.language = sounds[last.sound].config["language"]
        /\ last.request.engine = sounds[last.sound].config["engine"]
        /\ last.answered \in Bytes => sounds[last.sound].data = last.answered

(***************************************************************************)
(* Properties of the names of a pack's buckets and of its paths.           *)
(***************************************************************************)
LowerName(name) == [i \in 1..Len(name) |-> LowerOf(name[i])]

\* C26: every input bucket whose name is "system" in any mix of capitals and
\* small letters is in the assembled pack under the key "SYSTEM" (and under
\* no other spelling), and every other bucket name is a key of the assembled
\* pack exactly as given.
C26_SystemAnyCaseRenamed ==
    pack.built =>
        \A b \in 1..Len(InputMap) :
            IF LowerName(InputMap[b][1]) = system
            THEN /\ DictHas(pack.list, SYSTEM)
                 /\ InputMap[b][1] # SYSTEM => ~DictHas(pack.list, InputMap[b][1])
            ELSE DictHas(pack.list, InputMap[b][1])

(***************************************************************************)
(* Properties of the Polly provider.                                       *)
(***************************************************************************)
\* C27: a Polly provider uses the configuration given to its constructor as
\* its defaults: process sends the voice and the language it is called with,
\* and for each of the two that is left out the one of that configuration;
\* the engine sent is that of the configuration.
C27_PollyUsesGivenConfig ==
    (polly.built /\ polly.called) =>
        /\ polly.request.VoiceId =
               IF polly.voice = None THEN polly.given["voice"] ELSE polly.voice
        /\ polly.request.LanguageCode =
               IF polly.language = None THEN polly.given["language"]
               ELSE polly.language
        /\ polly.request.Engine = polly.given["engine"]

\* C28: on a miss Sound.process renders, then stores, then writes the file:
\* a store is attempted only after the backend has answered with bytes, and
\* the write only after the store was attempted.  So a call whose write fails
\* after a successful store leaves the row in the cache and no file, and a
\* later call for a key whose row was left that way is a hit with no backend
\* call.
C28_StoreBeforeWrite ==
    last.called =>
        /\ last.create # "none" =>
               /\ ~last.hit
               /\ last.backend = 1
               /\ last.answered \in Bytes
        /\ (~last.hit /\ last.raised \in {"no", "IOError"}) =>
               last.create \in {"no", "InterfaceError"}
        /\ last.written => (last.hit \/ last.create \in {"no", "InterfaceError"})
        /\ (last.create = "no" /\ last.raised = "IOError") =>
               /\ \E i \in RowsFor(table, last.key) :
                      table[i].data = last.answered
               /\ files = last.filesBefore
               /\ ~last.written
        /\ (RowsFor(last.rowsBefore, last.key) # {}
               /\ DOMAIN last.filesBefore = {}) =>
               /\ last.hit
               /\ last.backend = 0
               /\ last.create = "none"

\* A hit on a row that an earlier call stored before its write failed: the
\* key was rendered once, processed twice, and no file was ever written.
C28_Witness ==
    /\ last.called /\ last.hit
    /\ DOMAIN last.filesBefore = {}
    /\ Count(procCalls, last.key) = 2
    /\ Count(backendCalls, last.key) = 1
    /\ RowsFor(last.rowsBefore, last.key) # {}

\* The number of Sounds constructed for the input buckets before bucket b.
RECURSIVE SoundsBefore(_)
SoundsBefore(b) == IF b <= 1 THEN 0 ELSE SoundsBefore(b - 1) + Len(InputMap[b - 1][2])

\* C29: when the input phrase map has both a bucket "system" and a bucket
\* "SYSTEM", the assembled pack has one bucket "SYSTEM" and none "system"; it
\* holds exactly the keys and phrases of the later of the two in input order,
\* each of its Sounds is one constructed for the later bucket (nothing of the
\* earlier bucket is merged in), and the pack has fewer buckets than the
\* input.
C29_LaterSystemBucketWins ==
    pack.built =>
        \A a \in 1..Len(InputMap), b \in 1..Len(InputMap) :
            (a < b /\ {InputMap[a][1], InputMap[b][1]} = {system, SYSTEM}) =>
                /\ Cardinality({i \in 1..Len(pack.list) : pack.list[i][1] = SYSTEM}) = 1
                /\ ~DictHas(pack.list, system)
                /\ LET bucket == DictGet(pack.list, SYSTEM)
                   IN  /\ Holds(bucket) = AskedFor(InputMap[b][2])
                       /\ DictKeys(bucket) = SanitizedIds(InputMap[b][2])
                       /\ Len(bucket) = Cardinality(SanitizedIds(InputMap[b][2]))
                       /\ \A e \in 1..Len(bucket) :
                              /\ bucket[e][2] > SoundsBefore(b)
                              /\ bucket[e][2] <= SoundsBefore(b) + Len(InputMap[b][2])
                /\ Len(pack.list) < Len(InputMap)

\* "SYSTEM" with two sounds comes first and "system" with one of them comes
\* later: the pack has the one bucket, with the one sound.
C29_Witness ==
    /\ pack.built
    /\ Len(InputMap) = 2
    /\ InputMap[1][1] = SYSTEM /\ InputMap[2][1] = system
    /\ Len(InputMap[1][2]) = 2 /\ Len(InputMap[2][2]) = 1
    /\ Len(pack.list) = 1
    /\ pack.list[1][1] = SYSTEM
    /\ Len(pack.list[1][2]) = 1
    /\ Len(sounds) = 3

\* C30: a pack's path and packpath are functions of sanitize(config.name, 32)
\* and of the language up to its first hyphen.  path is "voicepacks/" and the
\* sanitized name, packpath is the pack root, "SOUNDS/language" and the
\* language base; a pack of any other name with the same sanitized name is
\* constructed with the same path and packpath; and for a name that
\* sanitizes to the empty string the pack root is the directory "voicepacks"
\* itself, not a directory below it.
C30_PathsFromSanitizedName ==
    pack.built =>
        LET safe == Reference(pack.config["name"], PackNameLength)
            base == LangBase(pack.config["language"])
            root == IF safe = <<>> THEN voicepacks ELSE voicepacks \o Slash \o safe
        IN  /\ pack.path = voicepacks \o Slash \o safe
            /\ Path(pack.path) = root
            /\ pack.packpath = root \o Slash \o SOUNDS \o Slash \o language_dir
                                   \o Slash \o base
            /\ (safe = <<>>) <=> (Path(pack.path) = voicepacks)
            /\ (safe # <<>>) <=> (voicepacks \in Parents(Path(pack.path)))
            /\ \A n \in PackNames :
                   Reference(n, PackNameLength) = safe =>
                       LET other == Pack_new([name |-> n,
                                              language |-> pack.config["language"]],
                                             Len(sounds))
                       IN  /\ other.built
                           /\ other.path = pack.path
                           /\ other.packpath = pack.packpath

\* A pack named "@": its root is "voicepacks" and its sounds go to
\* voicepacks/SOUNDS/language/en.
C30_Witness ==
    /\ pack.built
    /\ pack.config["name"] = <<"@">>
    /\ pack.name = <<>>
    /\ Path(pack.path) = voicepacks
    /\ pack.packpath = voicepacks \o Slash \o SOUNDS \o Slash \o language_dir
                           \o <<"/", "e", "n">>

====
